---------------------------- MODULE Spec2Model ----------------------------
(***************************************************************************)
(* Model of the periodic delta-notification core of Pulse:                 *)
(*   - services/appscheduler.py       AppScheduler (every, _run_loop, stop) *)
(*   - services/jobs/*_watchers.py    the three watcher jobs                *)
(*   - utils/datastore.py             load_json / save_json                 *)
(*                                                                         *)
(* The scheduler runs on one asyncio event loop: a step of the model is    *)
(* the code a task runs between two suspension points (awaits).            *)
(***************************************************************************)
EXTENDS Integers, Sequences, FiniteSets, TLC

(***************************************************************************)
(* Bounds of the model.                                                    *)
(***************************************************************************)
MaxTasks == 2
MaxStops == 1
MaxRows == 2        \* rows in one fetched result
MaxJobs == 1        \* watcher jobs registered with the scheduler
MaxItems == 2       \* strings in a list handed to save_json
MaxLines == 52      \* lines handed to _notify_msg_or_file

JobNames == {"banned", "rotom"}

VARIABLES
    tasks,      \* the asyncio.Task objects that exist, by identity
    _tasks,     \* AppScheduler._tasks: insertion-ordered dict name -> task
    _stopped,   \* AppScheduler._stopped (asyncio.Event): is it set
    stops,      \* the suspended calls of stop(): snapshot list, what is left of it
    did,        \* "returned" when a call of stop() returned in the step just
                \* taken, "again" when that call found the signal already set
                \* and returned without suspending, else "none"
    raised,     \* has a call of stop() raised
    store,      \* the JSON document of each snapshot file, by path
    wpc,        \* where the tick of each watcher job is suspended
    wloc,       \* the locals of each suspended tick
    ev,         \* what the step just taken did in a watcher tick
    jobs,       \* the watcher jobs that were registered with the scheduler
    hist,       \* what the last ended tick of each observed watcher job did
    files,      \* the files of the data directory, character by character
    io,         \* where a call of save_json stands, and what a load_json got
    call        \* a call of a function of the watchers: arguments and result

schedVars == <<tasks, _tasks, _stopped, stops, did, raised>>

diskVars == <<files, io>>

watchVars == <<store, wpc, wloc, ev, jobs, hist, files, io, call>>

vars == <<tasks, _tasks, _stopped, stops, did, raised,
          store, wpc, wloc, ev, jobs, hist, files, io, call>>

-----------------------------------------------------------------------------
(***************************************************************************)
(* Helpers on the task table and on the registry.                          *)
(***************************************************************************)
SeqRange(q) == {q[i] : i \in 1..Len(q)}

TaskIds == DOMAIN tasks

FinishedPc == {"returned", "cancelled", "failed"}

\* asyncio.Task.done()
Done(t) == tasks[t].pc \in FinishedPc

\* name in self._tasks
Registered(name) == \E i \in 1..Len(_tasks) : _tasks[i].name = name

\* self._tasks[name]
TaskOf(name) ==
    LET i == CHOOSE j \in 1..Len(_tasks) : _tasks[j].name = name
    IN  _tasks[i].task

\* self._tasks[name] = task  (a dict keeps the position of an existing key)
PutTask(reg, name, t) ==
    IF \E i \in 1..Len(reg) : reg[i].name = name
    THEN [i \in 1..Len(reg) |->
            IF reg[i].name = name THEN [name |-> name, task |-> t] ELSE reg[i]]
    ELSE Append(reg, [name |-> name, task |-> t])

\* The tasks the scheduler holds a reference to: the values of the registry
\* and the snapshot lists of the suspended stop() calls.
Held(reg, sts) ==
    {reg[i].task : i \in 1..Len(reg)} \cup UNION {SeqRange(sts[i].snap) : i \in 1..Len(sts)}

\* A finished task nothing refers to any more is freed; the event loop keeps
\* every unfinished task alive.
Collect(tbl, reg, sts) ==
    LET keep == {t \in DOMAIN tbl : tbl[t].pc \notin FinishedPc \/ t \in Held(reg, sts)}
    IN  [t \in keep |-> tbl[t]]

\* The guard of every(): the name is registered and its task has not finished.
AlreadyRunningNoCheck(name) == FALSE
AlreadyRunning(name) == Registered(name) /\ ~Done(TaskOf(name))

\* The waits _run_loop performs before the first pass of its while loop.
InitialWaitsIf(run_immediately, start_delay) ==
    (IF start_delay # "None" THEN <<"start_delay">> ELSE <<>>)
    \o (IF ~run_immediately THEN <<"interval">> ELSE <<>>)
InitialWaits(run_immediately, start_delay) ==
    IF start_delay # "None" THEN <<"start_delay">>
    ELSE IF ~run_immediately THEN <<"interval">>
    ELSE <<>>

\* while not self._stopped.is_set()
LoopCheckNever(stopped) == FALSE
LoopCheckAlways(stopped) == TRUE
LoopCheck(stopped) == ~stopped

\* Where _run_loop goes when "await job()" ends with `outcome`.
AfterTickCrash(outcome) == IF outcome = "raised" THEN "failed" ELSE "wait"
AfterTick(outcome) == "wait"

\* The except clauses around "await task" in stop(): what they swallow.
SwallowedNoCancel(result) == result \in {"returned", "failed"}
Swallowed(result) == result \in {"returned", "cancelled", "failed"}

-----------------------------------------------------------------------------
SchedInit ==
    /\ tasks = <<>>
    /\ _tasks = <<>>
    /\ _stopped = FALSE
    /\ stops = <<>>
    /\ did = "none"
    /\ raised = FALSE

(***************************************************************************)
(* every(name, seconds, job, run_immediately, start_delay): synchronous.   *)
(***************************************************************************)
NewTask(name, run_immediately, start_delay) ==
    [ name            |-> name,
      run_immediately |-> run_immediately,
      start_delay     |-> start_delay,
      pc              |-> "created",
      must_cancel     |-> FALSE,
      pending         |-> <<>>,
      elapsed         |-> <<>>,
      ticked          |-> FALSE,
      last            |-> "none" ]

\* The identity of the task asyncio.create_task() makes.
NewId == CHOOSE t \in (1..MaxTasks) \ TaskIds : \A u \in (1..MaxTasks) \ TaskIds : t <= u

\* With the task of the name still running the call logs a warning and
\* returns: nothing changes.
Every(name, run_immediately, start_delay) ==
    /\ IF AlreadyRunning(name)
       THEN UNCHANGED <<tasks, _tasks, _stopped, stops, did, raised>>
       ELSE /\ (1..MaxTasks) \ TaskIds # {}
            /\ LET t   == NewId
                   tbl == [u \in TaskIds \cup {t} |->
                             IF u = t THEN NewTask(name, run_immediately, start_delay)
                             ELSE tasks[u]]
                   reg == PutTask(_tasks, name, t)
               IN  /\ _tasks' = reg
                   /\ tasks' = Collect(tbl, reg, stops)
            /\ did' = "none"
            /\ UNCHANGED <<_stopped, stops, raised>>
    /\ UNCHANGED watchVars

(***************************************************************************)
(* _run_loop, one action per stretch between two awaits.                   *)
(***************************************************************************)
\* The task finishes with `result`: the coroutine's frame (its arguments and
\* locals) is gone, the Task keeps its result only.
Finish(rec, result) ==
    [ name            |-> "",
      run_immediately |-> FALSE,
      start_delay     |-> "None",
      pc              |-> result,
      must_cancel     |-> FALSE,
      pending         |-> <<>>,
      elapsed         |-> <<>>,
      ticked          |-> FALSE,
      last            |-> "none" ]

\* The frame once the first tick is over: run_immediately, start_delay and
\* the initial waits are read before the loop only (lines 47-59).
Looping(rec) ==
    [rec EXCEPT !.run_immediately = FALSE, !.start_delay = "None", !.elapsed = <<>>]

\* The head of the while loop, reached with no initial wait left.
EnterLoop(t, rec) ==
    IF LoopCheck(_stopped)
    THEN [rec EXCEPT !.pc = "ticking", !.ticked = TRUE, !.last = "running"]
    ELSE Finish(rec, "returned")

\* After the initial waits in rec.pending: the next wait, or the loop.
Proceed(t, rec) ==
    IF rec.pending # <<>>
    THEN [rec EXCEPT !.pc = "init_wait"]
    ELSE EnterLoop(t, rec)

\* How a wait_for(self._stopped.wait(), timeout) of task t can end now.
\*   cancelled: CancelledError reaches _run_loop
\*   event:     wait_for returns because the event is set (this is also how a
\*              cancellation ends when wait_for finds the inner wait done)
\*   timeout:   TimeoutError
WaitOutcomes(t) ==
    IF tasks[t].must_cancel THEN {"cancelled", "event"}
    ELSE IF _stopped THEN {"event", "timeout"}
    ELSE {"timeout"}

\* Task t has taken a step that leaves it as rec.
Stepped(t, rec) == Collect([tasks EXCEPT ![t] = rec], _tasks, stops)

\* First step of the task: a task cancelled before it starts never runs.
TaskStart(t) ==
    /\ t \in TaskIds
    /\ tasks[t].pc = "created"
    /\ LET rec == tasks[t] IN
       tasks' = Stepped(t,
          IF rec.must_cancel
          THEN Finish(rec, "cancelled")
          ELSE Proceed(t, [rec EXCEPT !.pending =
                              InitialWaits(rec.run_immediately, rec.start_delay)]))
    /\ did' = "none"
    /\ UNCHANGED <<_tasks, _stopped, stops, raised>>
    /\ UNCHANGED watchVars

\* An initial wait ends (lines 47-59).
InitWaitEnd(t) ==
    /\ t \in TaskIds
    /\ tasks[t].pc = "init_wait"
    /\ \E o \in WaitOutcomes(t) :
         LET rec == [tasks[t] EXCEPT !.must_cancel = FALSE] IN
         tasks' = Stepped(t,
            CASE o = "cancelled" -> Finish(rec, "cancelled")
              [] o = "event"     -> Finish(rec, "returned")
              [] o = "timeout"   ->
                    Proceed(t, [rec EXCEPT !.pending = Tail(rec.pending),
                                           !.elapsed = Append(rec.elapsed, Head(rec.pending))]))
    /\ did' = "none"
    /\ UNCHANGED <<_tasks, _stopped, stops, raised>>
    /\ UNCHANGED watchVars

\* "await job()" ends: the body returned, raised, or was cancelled (lines 63-69).
TickEnd(t) ==
    /\ t \in TaskIds
    /\ tasks[t].pc = "ticking"
    /\ LET rec == tasks[t] IN
       IF rec.must_cancel
       THEN tasks' = Stepped(t, Finish(rec, "cancelled"))
       ELSE \E o \in {"ok", "raised"} :
               tasks' = Stepped(t,
                  IF AfterTick(o) = "wait"
                  THEN [Looping(rec) EXCEPT !.pc = "wait", !.last = o]
                  ELSE Finish(rec, AfterTick(o)))
    /\ did' = "none"
    /\ UNCHANGED <<_tasks, _stopped, stops, raised>>
    /\ UNCHANGED watchVars

\* The inter-tick wait ends (lines 71-76), then the loop condition is tested.
WaitEnd(t) ==
    /\ t \in TaskIds
    /\ tasks[t].pc = "wait"
    /\ \E o \in WaitOutcomes(t) :
         LET rec == [tasks[t] EXCEPT !.must_cancel = FALSE] IN
         tasks' = Stepped(t,
            IF o = "cancelled" THEN Finish(rec, "cancelled")
            ELSE EnterLoop(t, rec))
    /\ did' = "none"
    /\ UNCHANGED <<_tasks, _stopped, stops, raised>>
    /\ UNCHANGED watchVars

(***************************************************************************)
(* stop(): set the event, cancel, await each task of the snapshot, clear.  *)
(***************************************************************************)
AwaitAllNone(rest, tbl) == [pc |-> "returned", rest |-> <<>>]

\* "for task in list(self._tasks.values()): await task" from the tasks in
\* `rest` on, over the task table tbl: it suspends at the first task that is
\* not done, raises at the first result the except clauses let through.
RECURSIVE AwaitAll(_, _)
AwaitAll(rest, tbl) ==
    IF rest = <<>> THEN [pc |-> "returned", rest |-> <<>>]
    ELSE IF tbl[Head(rest)].pc \notin FinishedPc THEN [pc |-> "awaiting", rest |-> rest]
    ELSE IF ~Swallowed(tbl[Head(rest)].pc) THEN [pc |-> "raised", rest |-> rest]
    ELSE AwaitAll(Tail(rest), tbl)

\* The suspended calls without call i.
Without(sts, i) == SubSeq(sts, 1, i - 1) \o SubSeq(sts, i + 1, Len(sts))

\* A stop() call whose await loop, over the task table tbl, got to st: it
\* stays suspended (frames sts), or it clears the registry and returns, or the
\* exception leaves it before the clear.
StopEnds(st, tbl, sts, again) ==
    /\ stops' = sts
    /\ _tasks' = IF st.pc = "returned" THEN <<>> ELSE _tasks
    /\ did' = IF st.pc # "returned" THEN "none"
              ELSE IF again THEN "again" ELSE "returned"
    /\ raised' = (raised \/ st.pc = "raised")
    /\ tasks' = Collect(tbl, IF st.pc = "returned" THEN <<>> ELSE _tasks, sts)

StopCall ==
    /\ _stopped' = TRUE
    /\ LET live == {_tasks[i].task : i \in 1..Len(_tasks)}
           tbl  == [t \in TaskIds |->
                      IF t \in live /\ ~Done(t)
                      THEN [tasks[t] EXCEPT !.must_cancel = TRUE]
                      ELSE tasks[t]]
           snap == [i \in 1..Len(_tasks) |-> _tasks[i].task]
           st   == AwaitAll(snap, tbl)
       IN  /\ st.pc = "awaiting" => Len(stops) < MaxStops
           /\ StopEnds(st, tbl,
                       IF st.pc = "awaiting"
                       THEN Append(stops, [rest |-> st.rest, snap |-> snap])
                       ELSE stops,
                       _stopped)
    /\ UNCHANGED watchVars

\* stop() is resumed: the task it was awaiting has finished.
StopResume(i) ==
    /\ i \in 1..Len(stops)
    /\ Done(Head(stops[i].rest))
    /\ LET st == AwaitAll(stops[i].rest, tasks) IN
         StopEnds(st, tasks,
                  IF st.pc = "awaiting"
                  THEN [stops EXCEPT ![i].rest = st.rest]
                  ELSE Without(stops, i),
                  FALSE)
    /\ UNCHANGED _stopped
    /\ UNCHANGED watchVars

-----------------------------------------------------------------------------
EveryCall ==
    \E name \in JobNames, ri \in BOOLEAN, sd \in {"None", "delay"} : Every(name, ri, sd)

Next ==
    \/ EveryCall
    \/ \E t \in 1..MaxTasks : TaskStart(t)
    \/ \E t \in 1..MaxTasks : InitWaitEnd(t)
    \/ \E t \in 1..MaxTasks : TickEnd(t)
    \/ \E t \in 1..MaxTasks : WaitEnd(t)
    \/ StopCall
    \/ \E i \in 1..MaxStops : StopResume(i)

-----------------------------------------------------------------------------
(***************************************************************************)
(* Strings are sequences of one-character strings.                         *)
(***************************************************************************)
\* The characters used, in code point order.
Alphabet == <<" ", "0", "1", "2", "3", "4", "5", "6", "7", "8", "9", "a", "b", "d", "x", "|">>

CharRank(c) == CHOOSE i \in 1..Len(Alphabet) : Alphabet[i] = c

\* Python's < on str.
RECURSIVE StrLess(_, _)
StrLess(a, b) ==
    IF b = <<>> THEN FALSE
    ELSE IF a = <<>> THEN TRUE
    ELSE IF Head(a) = Head(b) THEN StrLess(Tail(a), Tail(b))
    ELSE CharRank(Head(a)) < CharRank(Head(b))

\* str.strip()
RECURSIVE LStrip(_)
LStrip(a) == IF a # <<>> /\ Head(a) = " " THEN LStrip(Tail(a)) ELSE a

RECURSIVE RStrip(_)
RStrip(a) ==
    IF a # <<>> /\ a[Len(a)] = " " THEN RStrip(SubSeq(a, 1, Len(a) - 1)) ELSE a

Strip(a) == RStrip(LStrip(a))

\* sorted(S) for a set of strings.
RECURSIVE Sorted(_)
Sorted(S) ==
    IF S = {} THEN <<>>
    ELSE LET m == CHOOSE x \in S : \A y \in S \ {x} : StrLess(x, y)
         IN  <<m>> \o Sorted(S \ {m})

\* The value None.
None == <<"None">>

\* str(n) for an int n >= 0 (the DAO casts the counters to unsigned ints).
RECURSIVE IntStr(_)
IntStr(n) ==
    IF n < 10 THEN <<Alphabet[n + 2]>>
    ELSE IntStr(n \div 10) \o IntStr(n % 10)

(***************************************************************************)
(* utils/datastore.py: one JSON document per path.                         *)
(***************************************************************************)
Absent == [kind |-> "absent", items |-> <<>>]

ListDoc(q) == [kind |-> "list", items |-> q]

\* A file that cannot be read or parsed, and one holding JSON that is not a
\* list: the object {"a": 1}, which iterates over its key.
Corrupt == [kind |-> "corrupt", items |-> <<>>]

NotList == [kind |-> "other", items |-> <<<<"a">>>>]

\* load_json(path, default): the default when the file does not exist or
\* when reading or parsing it raises.
LoadJsonDefault(doc, default) == default
LoadJson(doc, default) == IF doc.kind \in {"absent", "corrupt"} THEN default ELSE doc

\* save_json(path, obj): the document replaces the file in one move, unless
\* the write fails, which is logged and leaves the file as it was.
SaveJsonAnyway(doc, obj, ok) == ListDoc(obj)
SaveJson(doc, obj, ok) == IF ok THEN ListDoc(obj) ELSE doc

\* _to_set(v)
ToSetNothing(v) == {}
ToSetAny(v) == SeqRange(v.items)
ToSet(v) == IF v.kind = "list" THEN SeqRange(v.items) ELSE {}

(***************************************************************************)
(* save_json and load_json on the files themselves.                        *)
(***************************************************************************)
NoFile == [exists |-> FALSE, text |-> <<>>]

File(text) == [exists |-> TRUE, text |-> text]

\* The lists of strings handed to save_json.
Items == {<<"a">>, <<"b">>}

Lists == UNION {[1..n -> Items] : n \in 0..MaxItems}

\* json.dump(obj, f, ensure_ascii=False, indent=2) of a list of str.
RECURSIVE DumpItems(_)
DumpItems(q) ==
    IF q = <<>> THEN <<>>
    ELSE <<"\n", " ", " ", "\"">> \o Head(q) \o <<"\"">>
         \o (IF Len(q) > 1 THEN <<",">> ELSE <<>>) \o DumpItems(Tail(q))

Dump(q) == IF q = <<>> THEN <<"[", "]">> ELSE <<"[">> \o DumpItems(q) \o <<"\n", "]">>

\* The text of {"a": 1}.
ObjectText == <<"{", "\"", "a", "\"", ":", " ", "1", "}">>

\* json.load(f): the list a text encodes, a value that is not a list, or an
\* exception.
ParseJson(text) ==
    IF \E q \in Lists : Dump(q) = text
    THEN ListDoc(CHOOSE q \in Lists : Dump(q) = text)
    ELSE IF text = ObjectText THEN NotList
    ELSE Corrupt

\* The document load_json finds in a file.
DocOf(f) == IF f.exists THEN ParseJson(f.text) ELSE Absent

\* The snapshot file and tmp = path.with_suffix(path.suffix + ".tmp")
SeenPath == "seen.json"

TmpSame(path) == path
TmpOf(path) == path \o ".tmp"

\* tmp.replace(path)
Replace(fs, src, dst) ==
    IF src = dst THEN fs ELSE [fs EXCEPT ![dst] = fs[src], ![src] = NoFile]

NoGot == [kind |-> "none", items |-> <<>>]

NoIo == [pc |-> "idle", obj |-> <<>>, old |-> NoFile, ok |-> FALSE, got |-> NoGot]

NoCall == [fn |-> "none", arg |-> <<>>, done |-> FALSE, out |-> <<>>]

DiskInit ==
    /\ files = [n \in {SeenPath, TmpOf(SeenPath)} |-> NoFile]
    /\ io = NoIo
    /\ call = NoCall

\* save_json(path, obj) is called: path.parent.mkdir(...).
SaveCall ==
    /\ io.pc = "idle"
    /\ \E obj \in Lists, mkdir_ok \in BOOLEAN :
         io' = [NoIo EXCEPT !.pc = IF mkdir_ok THEN "open" ELSE "returned",
                            !.obj = obj, !.old = files[SeenPath]]
    /\ UNCHANGED files
    /\ UNCHANGED <<schedVars, store, wpc, wloc, ev, jobs, hist, call>>

\* tmp.open("w"): the file is created or truncated.
SaveOpen ==
    /\ io.pc = "open"
    /\ \E open_ok \in BOOLEAN :
         IF open_ok
         THEN /\ files' = [files EXCEPT ![TmpOf(SeenPath)] = File(<<>>)]
              /\ io' = [io EXCEPT !.pc = "write", !.got = NoGot]
         ELSE /\ io' = [io EXCEPT !.pc = "returned", !.got = NoGot]
              /\ UNCHANGED files
    /\ UNCHANGED <<schedVars, store, wpc, wloc, ev, jobs, hist, call>>

\* json.dump writes the next character, or the file is closed after the
\* last one; either can raise, which ends save_json.
SaveWrite ==
    /\ io.pc = "write"
    /\ \E write_ok \in BOOLEAN :
         LET text == Dump(io.obj)
             tmp  == TmpOf(SeenPath)
             n    == Len(files[tmp].text)
         IN  IF ~write_ok
             THEN /\ io' = [io EXCEPT !.pc = "returned", !.got = NoGot]
                  /\ UNCHANGED files
             ELSE IF n < Len(text)
             THEN /\ files' = [files EXCEPT ![tmp] = File(Append(files[tmp].text, text[n + 1]))]
                  /\ io' = [io EXCEPT !.got = NoGot]
             ELSE /\ io' = [io EXCEPT !.pc = "replace", !.got = NoGot]
                  /\ UNCHANGED files
    /\ UNCHANGED <<schedVars, store, wpc, wloc, ev, jobs, hist, call>>

\* tmp.replace(path), in one move; save_json returns.
SaveReplace ==
    /\ io.pc = "replace"
    /\ \E replace_ok \in BOOLEAN :
         /\ files' = IF replace_ok THEN Replace(files, TmpOf(SeenPath), SeenPath) ELSE files
         /\ io' = [io EXCEPT !.pc = "returned", !.ok = replace_ok, !.got = NoGot]
    /\ UNCHANGED <<schedVars, store, wpc, wloc, ev, jobs, hist, call>>

\* load_json(path, []) by a reader, at any point of the save.
Load ==
    /\ io.pc # "idle"
    /\ io.got = NoGot
    /\ io' = [io EXCEPT !.got = LoadJson(DocOf(files[SeenPath]), ListDoc(<<>>))]
    /\ UNCHANGED files
    /\ UNCHANGED <<schedVars, store, wpc, wloc, ev, jobs, hist, call>>

SaveNext == SaveCall \/ SaveOpen \/ SaveWrite \/ SaveReplace \/ Load

(***************************************************************************)
(* The watcher jobs.                                                       *)
(***************************************************************************)
Watchers == {"banned_nk", "banned_ptc", "err_disabled", "rotom"}

Banned == {"banned_nk", "banned_ptc"}

\* The provider of a banned-usernames job.
Provider(w) == IF w = "banned_nk" THEN "nk" ELSE "ptc"

\* The snapshot file of each job, in DATA_DIR: seen_path of the account
\* jobs, _OFFLINE_PATH of the offline-device job.
SeenPathShared(w) ==
    IF w \in Banned THEN "banned_seen.json" ELSE "err_disabled_seen_keys.json"
seen_path(w) ==
    IF w \in Banned THEN "banned_seen_" \o Provider(w) \o ".json"
    ELSE "err_disabled_seen_keys.json"

_OFFLINE_PATH == "rotom_offline_devices.json"

PathOf(w) == IF w = "rotom" THEN _OFFLINE_PATH ELSE seen_path(w)

Paths == {PathOf(w) : w \in Watchers}

\* current - before, and previous - current
AddedNoDiff(before, current) == current
Added(before, current) == current \ before
Removed(before, current) == before \ current

\* The save of the account watchers is conditional.
NeedsSave(before, current) == before # current

\* banned_usernames(): usernames as the DAO returns them (str, not empty).
RawNames == {<<"a">>, <<" ", "b", " ">>, <<" ">>}

\* current = {str(u).strip() for u in rows if str(u).strip()}
BannedCurrent(rows) == {Strip(rows[i]) : i \in 1..Len(rows)} \ {<<>>}

\* err_disabled(): rows of the DAO.
ErrRows ==
    { [username |-> <<"a">>, METHOD_ENCOUNTER |-> 1, METHOD_GET_MAP_OBJECTS |-> 0,
       session_duration |-> <<"x">>],
      [username |-> <<"a">>, METHOD_ENCOUNTER |-> 2, METHOD_GET_MAP_OBJECTS |-> 0,
       session_duration |-> <<"x">>] }

\* x or ""
OrEmpty(x) == IF x = None THEN <<>> ELSE x

\* _err_disabled_key(row): username|enc|gmo|duration
KeyUnseparated(row) ==
    Strip(OrEmpty(row.username)) \o IntStr(row.METHOD_ENCOUNTER)
    \o IntStr(row.METHOD_GET_MAP_OBJECTS) \o Strip(OrEmpty(row.session_duration))
_err_disabled_key(row) ==
    Strip(OrEmpty(row.username)) \o <<"|">> \o IntStr(row.METHOD_ENCOUNTER)
    \o <<"|">> \o IntStr(row.METHOD_GET_MAP_OBJECTS)
    \o <<"|">> \o Strip(OrEmpty(row.session_duration))

ErrCurrent(rows) == {_err_disabled_key(rows[i]) : i \in 1..Len(rows)}

\* The text of a number of letters.
Letters(word) == [i \in 1..Len(word) |-> SubSeq(word, i, i)]

\* session_duration as the query builds it: CONCAT(FLOOR(s / 3600),
\* ' hours, ', FLOOR(MOD(s, 3600) / 60), ' minutes, ', MOD(s, 60), ' seconds')
DurationText(s) ==
    IntStr(s \div 3600) \o Letters(" hours, ") \o IntStr((s % 3600) \div 60)
    \o Letters(" minutes, ") \o IntStr(s % 60) \o Letters(" seconds")

\* Rows of err_disabled(): the counters are unsigned, the duration is NULL
\* or the text of a number of seconds.
KeyRows ==
    [ username : {<<"a">>, <<"b">>}, METHOD_ENCOUNTER : {1, 11},
      METHOD_GET_MAP_OBJECTS : {1, 11},
      session_duration : {None, DurationText(1), DurationText(61)} ]

\* The keys of two rows, and what a tick that fetched the second row adds
\* to the snapshot a tick that fetched the first one left.
KeyCall ==
    /\ call.fn = "_err_disabled_key"
    /\ ~call.done
    /\ call' = [call EXCEPT
                  !.done = TRUE,
                  !.out = [keys  |-> <<_err_disabled_key(call.arg[1]),
                                       _err_disabled_key(call.arg[2])>>,
                           added |-> Added(ErrCurrent(<<call.arg[1]>>),
                                           ErrCurrent(<<call.arg[2]>>))]]
    /\ UNCHANGED <<schedVars, store, wpc, wloc, ev, jobs, hist, diskVars>>

\* threshold_s, and the clock readings of a tick.
threshold_s == 600
NowValues == {2000000}
thr_ms == threshold_s * 1000

\* status_devices_last_seen(): one row per device.
DeviceIds == {<<"d", "1">>, <<"d", "2">>}
TsValues(now_ms) == {0, now_ms - thr_ms - 1, now_ms - thr_ms}
RotomRowSet(now_ms) == [deviceId : DeviceIds, lastTs : TsValues(now_ms)]

\* _is_offline(ts): unknown or zero timestamps count as offline.
IsOfflineAtThreshold(ts, now_ms) == ts <= 0 \/ (now_ms - ts) >= thr_ms
_is_offline(ts, now_ms) == ts <= 0 \/ (now_ms - ts) > thr_ms

\* last_seen = {deviceId: lastTs}: a later row replaces an earlier one.
LastSeen(rows, dev) ==
    LET idx == {i \in 1..Len(rows) : Strip(rows[i].deviceId) = dev}
    IN  rows[CHOOSE i \in idx : \A j \in idx : j <= i].lastTs

RotomCurrent(rows, now_ms) ==
    {dev \in {Strip(rows[i].deviceId) : i \in 1..Len(rows)} :
        _is_offline(LastSeen(rows, dev), now_ms)}

\* Sequences of at most MaxRows elements of S.
SeqsUpTo(S) == UNION {[1..n -> S] : n \in 0..MaxRows}

\* The results a fetch of watcher w can deliver.
FetchResults(w, now_ms) ==
    IF w \in Banned THEN SeqsUpTo(RawNames)
    ELSE IF w = "err_disabled" THEN SeqsUpTo(ErrRows)
    ELSE {r \in SeqsUpTo(RotomRowSet(now_ms)) :
            \A i, j \in 1..Len(r) : i # j => r[i].deviceId # r[j].deviceId}

\* The set a watcher builds from the fetched rows.
Current(w, rows, now_ms) ==
    IF w \in Banned THEN BannedCurrent(rows)
    ELSE IF w = "err_disabled" THEN ErrCurrent(rows)
    ELSE RotomCurrent(rows, now_ms)

\* The locals of a tick, with the calls of channel.send it has made.
NoLoc ==
    [ now_ms |-> 0, prev |-> {}, cur |-> {}, new |-> <<>>, rec |-> <<>>,
      saveFailed |-> FALSE, calls |-> <<>> ]

NoMsg == [kind |-> "none", lines |-> <<>>]

\* What is remembered of an ended tick: how it went ("none": it returned at
\* the channel check, or there was none; "failed": the fetch failed; "quiet":
\* it had no addition to send; "told" / "lost": the send of the additions
\* went through / raised), the set it loaded, the set it fetched, the
\* additions it computed, and whether the snapshot document it left holds
\* the fetched set.
NoHist == [state |-> "none", prev |-> {}, cur |-> {}, new |-> {}, saved |-> FALSE]

\* The set of identifiers a snapshot document holds (none if never written).
SnapshotSet(doc) == IF doc.kind = "list" THEN SeqRange(doc.items) ELSE {}

HistOf(state, loc, doc) ==
    [state |-> state, prev |-> loc.prev, cur |-> loc.cur, new |-> SeqRange(loc.new),
     saved |-> SnapshotSet(doc) = loc.cur]

NoEv ==
    [ w |-> "", done |-> FALSE, result |-> "none", fetched |-> FALSE,
      computed |-> FALSE, before |-> Absent, rows |-> <<>>, now_ms |-> 0,
      prev |-> {}, cur |-> {}, new |-> <<>>, rec |-> <<>>, msg |-> NoMsg,
      saveFailed |-> FALSE, last |-> NoHist, calls |-> <<>>, ch |-> "" ]

\* The ticks of the watchers in DOMAIN hist are remembered.
Last(w) == IF w \in DOMAIN hist THEN hist[w] ELSE NoHist

Remember(w, h) == IF w \in DOMAIN hist THEN [hist EXCEPT ![w] = h] ELSE hist

\* A step of watcher w, with what its previous tick did.
EvOf(w) == [NoEv EXCEPT !.w = w, !.last = Last(w)]

\* No tick has started.
JobsIdle ==
    /\ wpc = [w \in Watchers |-> "idle"]
    /\ wloc = [w \in Watchers |-> NoLoc]
    /\ ev = NoEv

WatchInit ==
    /\ store = [p \in Paths |-> Absent]
    /\ JobsIdle
    /\ DiskInit

\* The tick described by the locals loc of watcher w ends with `result`.
EndOf(w, loc, result, msg) ==
    [EvOf(w) EXCEPT !.done = TRUE, !.result = result, !.fetched = TRUE,
                 !.now_ms = loc.now_ms, !.prev = loc.prev, !.cur = loc.cur,
                 !.saveFailed = loc.saveFailed, !.calls = loc.calls,
                 !.new = loc.new, !.rec = loc.rec, !.msg = msg]

\* What client.get_channel(ch_id) if ch_id else None gives: None when the
\* channel is not configured or not found, a channel of another kind, a text
\* channel, a thread.
Channels == {"None", "voice", "text", "thread"}

\* isinstance(ch, (discord.TextChannel, discord.Thread))
IsAnyChannel(ch) == ch # "None"
IsTextOrThread(ch) == ch \in {"text", "thread"}

\* The job is called: the channel check, then the fetch is awaited.
WTickStartStep(w) ==
    /\ w \in jobs
    /\ wpc[w] = "idle"
    /\ \E ch \in Channels, now_ms \in NowValues :
         IF ~IsTextOrThread(ch)
         THEN /\ ev' = [EvOf(w) EXCEPT !.done = TRUE, !.result = "returned", !.ch = ch]
              /\ hist' = Remember(w, NoHist)
              /\ UNCHANGED <<store, wpc, wloc>>
         ELSE /\ wpc' = [wpc EXCEPT ![w] = "fetch"]
              /\ wloc' = [wloc EXCEPT ![w] = [NoLoc EXCEPT !.now_ms = now_ms]]
              /\ ev' = [EvOf(w) EXCEPT !.ch = ch]
              /\ UNCHANGED <<store, hist>>

WTickStart(w) ==
    /\ WTickStartStep(w)
    /\ UNCHANGED <<schedVars, jobs, diskVars, call>>

\* The fetch of an account watcher ends: an exception leaves the job; rows
\* are diffed against the snapshot, the snapshot is saved, and the
\* notification, if any, is awaited.
AccountFetchDoneStep(w) ==
    /\ w \in Watchers \ {"rotom"}
    /\ wpc[w] = "fetch"
    /\ \/ /\ ev' = [EvOf(w) EXCEPT !.done = TRUE, !.result = "raised"]
          /\ hist' = Remember(w, [NoHist EXCEPT !.state = "failed"])
          /\ wpc' = [wpc EXCEPT ![w] = "idle"]
          /\ wloc' = [wloc EXCEPT ![w] = NoLoc]
          /\ UNCHANGED store
       \/ \E rows \in FetchResults(w, wloc[w].now_ms), save_ok \in BOOLEAN :
            LET current == Current(w, rows, wloc[w].now_ms)
                before  == ToSet(LoadJson(store[seen_path(w)], ListDoc(<<>>)))
                new     == Sorted(Added(before, current))
                saves   == NeedsSave(before, current)
                loc     == [wloc[w] EXCEPT !.prev = before, !.cur = current, !.new = new,
                                           !.saveFailed = saves /\ ~save_ok,
                                           !.calls = IF new = <<>> THEN <<>> ELSE <<"new">>]
                seen    == [EndOf(w, loc, "returned", NoMsg) EXCEPT
                               !.done = (new = <<>>), !.rows = rows,
                               !.result = IF new = <<>> THEN "returned" ELSE "none",
                               !.computed = TRUE, !.before = store[seen_path(w)]]
            IN  /\ store' = IF saves
                            THEN [store EXCEPT ![seen_path(w)] = SaveJson(store[seen_path(w)], Sorted(current), save_ok)]
                            ELSE store
                /\ ev' = seen
                /\ IF new = <<>>
                   THEN /\ wpc' = [wpc EXCEPT ![w] = "idle"]
                        /\ wloc' = [wloc EXCEPT ![w] = NoLoc]
                        /\ hist' = Remember(w, HistOf("quiet", loc, store'[seen_path(w)]))
                   ELSE /\ wpc' = [wpc EXCEPT ![w] = "send_new"]
                        /\ wloc' = [wloc EXCEPT ![w] = loc]
                        /\ UNCHANGED hist

AccountFetchDone(w) ==
    /\ AccountFetchDoneStep(w)
    /\ UNCHANGED <<schedVars, jobs, diskVars, call>>

\* The send of an account watcher ends: the job returns, or the exception of
\* channel.send leaves the job.
AccountSendDoneStep(w) ==
    /\ w \in Watchers \ {"rotom"}
    /\ wpc[w] = "send_new"
    /\ \E send_ok \in BOOLEAN :
         /\ ev' = EndOf(w, wloc[w], IF send_ok THEN "returned" ELSE "raised",
                        IF send_ok THEN [kind |-> "new", lines |-> wloc[w].new] ELSE NoMsg)
         /\ hist' = Remember(w, HistOf(IF send_ok THEN "told" ELSE "lost", wloc[w], store[seen_path(w)]))
    /\ wpc' = [wpc EXCEPT ![w] = "idle"]
    /\ wloc' = [wloc EXCEPT ![w] = NoLoc]
    /\ UNCHANGED store

AccountSendDone(w) ==
    /\ AccountSendDoneStep(w)
    /\ UNCHANGED <<schedVars, jobs, diskVars, call>>

\* The offline-device watcher persists the current offline set and returns.
RotomPersist(loc, save_ok, msg) ==
    /\ store' = [store EXCEPT ![_OFFLINE_PATH] = SaveJson(store[_OFFLINE_PATH], Sorted(loc.cur), save_ok)]
    /\ hist' = Remember("rotom",
                  HistOf(IF loc.new = <<>> THEN "quiet" ELSE "told", loc, store'[_OFFLINE_PATH]))
    /\ ev' = [EndOf("rotom", loc, "returned", msg) EXCEPT !.saveFailed = ~save_ok]
    /\ wpc' = [wpc EXCEPT !["rotom"] = "idle"]
    /\ wloc' = [wloc EXCEPT !["rotom"] = NoLoc]

\* The fetch of the offline-device watcher ends: a failure is caught and the
\* job returns; rows give the offline set, which is diffed against the
\* snapshot; the notifications come before the save.
RotomFetchDoneStep ==
    /\ wpc["rotom"] = "fetch"
    /\ \/ /\ ev' = [EvOf("rotom") EXCEPT !.done = TRUE, !.result = "returned"]
          /\ hist' = Remember("rotom", [NoHist EXCEPT !.state = "failed"])
          /\ wpc' = [wpc EXCEPT !["rotom"] = "idle"]
          /\ wloc' = [wloc EXCEPT !["rotom"] = NoLoc]
          /\ UNCHANGED store
       \/ \E rows \in FetchResults("rotom", wloc["rotom"].now_ms), save_ok \in BOOLEAN :
            LET now_ms          == wloc["rotom"].now_ms
                current_offline == Current("rotom", rows, now_ms)
                prev_offline    == ToSet(LoadJson(store[_OFFLINE_PATH], ListDoc(<<>>)))
                newly_offline   == Sorted(Added(prev_offline, current_offline))
                recovered       == Sorted(Removed(prev_offline, current_offline))
                loc == [wloc["rotom"] EXCEPT !.prev = prev_offline, !.cur = current_offline,
                                             !.new = newly_offline, !.rec = recovered,
                                             !.calls = IF newly_offline # <<>> THEN <<"new">>
                                                       ELSE IF recovered # <<>> THEN <<"recovered">>
                                                       ELSE <<>>]
                seen == [EndOf("rotom", loc, "none", NoMsg) EXCEPT
                            !.done = FALSE, !.computed = TRUE, !.rows = rows,
                            !.before = store[_OFFLINE_PATH]]
            IN  IF newly_offline # <<>> \/ recovered # <<>>
                THEN /\ wpc' = [wpc EXCEPT !["rotom"] =
                                  IF newly_offline # <<>> THEN "send_new" ELSE "send_rec"]
                     /\ wloc' = [wloc EXCEPT !["rotom"] = loc]
                     /\ ev' = seen
                     /\ UNCHANGED <<store, hist>>
                ELSE /\ store' = [store EXCEPT ![_OFFLINE_PATH] =
                                    SaveJson(store[_OFFLINE_PATH], Sorted(current_offline), save_ok)]
                     /\ hist' = Remember("rotom", HistOf("quiet", loc, store'[_OFFLINE_PATH]))
                     /\ ev' = [seen EXCEPT !.done = TRUE, !.result = "returned",
                                           !.saveFailed = ~save_ok]
                     /\ wpc' = [wpc EXCEPT !["rotom"] = "idle"]
                     /\ wloc' = [wloc EXCEPT !["rotom"] = NoLoc]

RotomFetchDone ==
    /\ RotomFetchDoneStep
    /\ UNCHANGED <<schedVars, jobs, diskVars, call>>

\* A send of the offline-device watcher ends: an exception of channel.send
\* leaves the job before the save; after the "offline" message comes the
\* "recovered" one, after the last message the save.
RotomSendDoneStep ==
    /\ wpc["rotom"] \in {"send_new", "send_rec"}
    /\ \E send_ok \in BOOLEAN, save_ok \in BOOLEAN :
         LET loc == wloc["rotom"]
             msg == IF wpc["rotom"] = "send_new"
                    THEN [kind |-> "new", lines |-> loc.new]
                    ELSE [kind |-> "recovered", lines |-> loc.rec]
         IN  IF ~send_ok
             THEN /\ ev' = EndOf("rotom", loc, "raised", NoMsg)
                  /\ hist' = Remember("rotom",
                                HistOf(IF loc.new = <<>> THEN "quiet"
                                       ELSE IF wpc["rotom"] = "send_new" THEN "lost"
                                       ELSE "told", loc, store[_OFFLINE_PATH]))
                  /\ wpc' = [wpc EXCEPT !["rotom"] = "idle"]
                  /\ wloc' = [wloc EXCEPT !["rotom"] = NoLoc]
                  /\ UNCHANGED store
             ELSE IF wpc["rotom"] = "send_new" /\ loc.rec # <<>>
             THEN /\ wpc' = [wpc EXCEPT !["rotom"] = "send_rec"]
                  /\ wloc' = [wloc EXCEPT !["rotom"].calls = <<"new", "recovered">>]
                  /\ ev' = [EndOf("rotom", wloc'["rotom"], "none", msg) EXCEPT !.done = FALSE]
                  /\ UNCHANGED <<store, hist>>
             ELSE RotomPersist(loc, save_ok, msg)

RotomSendDone ==
    /\ RotomSendDoneStep
    /\ UNCHANGED <<schedVars, jobs, diskVars, call>>

WatchNext ==
    \/ \E w \in Watchers : WTickStart(w)
    \/ \E w \in Watchers : AccountFetchDone(w)
    \/ \E w \in Watchers : AccountSendDone(w)
    \/ RotomFetchDone
    \/ RotomSendDone

\* The watcher jobs, each called again whenever its last tick has ended.
WatchSpecInit ==
    /\ SchedInit
    /\ WatchInit
    /\ jobs \in {J \in SUBSET Watchers : Cardinality(J) <= MaxJobs}
    /\ hist = <<>>

WatchSpec == WatchSpecInit /\ [][WatchNext]_vars


\* Two watcher jobs, whose ticks interleave at their awaits.
PairSpecInit ==
    /\ SchedInit
    /\ WatchInit
    /\ \E v, w \in Watchers : v # w /\ jobs = {v, w}
    /\ hist = <<>>

PairSpec == PairSpecInit /\ [][WatchNext]_vars

\* One watcher job, observed from tick to tick; its snapshot file does not
\* exist or is not one that save_json wrote.
TickSpecInit ==
    /\ SchedInit
    /\ JobsIdle
    /\ DiskInit
    /\ \E w \in Watchers, doc \in {Absent, Corrupt, NotList} :
          /\ jobs = {w}
          /\ hist = [x \in {w} |-> NoHist]
          /\ store = [p \in Paths |-> IF p = PathOf(w) THEN doc ELSE Absent]

TickSpec == TickSpecInit /\ [][WatchNext]_vars

\* One call of save_json for a snapshot file, which does not exist, holds
\* an earlier list, or is not one that save_json wrote; an earlier call may
\* have left its temporary file.
SaveSpecInit ==
    /\ SchedInit
    /\ store = [p \in Paths |-> Absent]
    /\ JobsIdle
    /\ jobs = {}
    /\ hist = <<>>
    /\ io = NoIo
    /\ call = NoCall
    /\ \E old \in {NoFile, File(ObjectText), File(<<"[">>)} \cup {File(Dump(q)) : q \in Lists},
          tmp \in {NoFile, File(<<"[">>)} :
          files = [n \in {SeenPath, TmpOf(SeenPath)} |-> IF n = SeenPath THEN old ELSE tmp]

SaveSpec == SaveSpecInit /\ [][SaveNext]_vars

(***************************************************************************)
(* _notify_msg_or_file(channel, header, lines, inline_threshold=50)        *)
(***************************************************************************)
inline_threshold == 50

\* len(lines) <= inline_threshold
InlineBelow(n, threshold) == n < threshold
Inline(n, threshold) == n <= threshold

\* sep.join(parts)
RECURSIVE Join(_, _)
Join(parts, sep) ==
    IF parts = <<>> THEN <<>>
    ELSE IF Len(parts) = 1 THEN parts[1]
    ELSE parts[1] \o sep \o Join(Tail(parts), sep)

\* A line of the body, between back quotes after a bullet: "*" stands for
\* the bullet character, "'" for the back quote, and "-" below for the dash
\* sent when there is no line.
Bullet(ln) == <<"*", " ", "'">> \o ln \o <<"'">>

\* The one message the call sends: its content and its attached file.
NotifyMsgOrFile(header, lines) ==
    IF Inline(Len(lines), inline_threshold)
    THEN LET body == IF lines # <<>>
                     THEN Join([i \in 1..Len(lines) |-> Bullet(lines[i])], <<"\n">>)
                     ELSE <<"-">>
         IN  << [content |-> header \o <<"\n">> \o body, file |-> None] >>
    ELSE LET txt == Join([i \in 1..Len(lines) |-> Strip(lines[i])], <<"\n">>)
         IN  << [content |-> header \o Letters("\n(attached list)"), file |-> txt] >>

\* The header of a notification.
Header == Letters("**Banned** new")

\* The i-th of the sorted new usernames of the banned-usernames job.
NameLine(i) == <<"a">> \o IntStr(i)

\* f"{u} | ENC={enc} | GMO={gmo} | {dur}", of a row with no duration
ErrLine(row) ==
    (IF row.username = None \/ row.username = <<>> THEN <<"?">> ELSE row.username)
    \o Letters(" | ENC=") \o IntStr(row.METHOD_ENCOUNTER)
    \o Letters(" | GMO=") \o IntStr(row.METHOD_GET_MAP_OBJECTS)
    \o Letters(" | ") \o OrEmpty(row.session_duration)

\* The lines the jobs hand over: n usernames, or the lines of n rows of the
\* disabled-session job whose duration is NULL.
LinesOf(job, n) ==
    [i \in 1..n |->
        IF job = "banned" THEN NameLine(i)
        ELSE ErrLine([username |-> NameLine(i), METHOD_ENCOUNTER |-> 1,
                      METHOD_GET_MAP_OBJECTS |-> 0, session_duration |-> None])]

NotifyCall ==
    /\ call.fn = "_notify_msg_or_file"
    /\ ~call.done
    /\ call' = [call EXCEPT !.done = TRUE, !.out = NotifyMsgOrFile(Header, call.arg)]
    /\ UNCHANGED <<schedVars, store, wpc, wloc, ev, jobs, hist, diskVars>>

\* No scheduler, no tick, no save.
Quiet ==
    /\ SchedInit
    /\ store = [p \in Paths |-> Absent]
    /\ JobsIdle
    /\ jobs = {}
    /\ hist = <<>>
    /\ files = [n \in {SeenPath, TmpOf(SeenPath)} |-> NoFile]
    /\ io = NoIo

\* _err_disabled_key on two rows of the query.
KeySpecInit ==
    /\ Quiet
    /\ \E r1 \in KeyRows, r2 \in KeyRows :
          call = [NoCall EXCEPT !.fn = "_err_disabled_key", !.arg = <<r1, r2>>]

KeySpec == KeySpecInit /\ [][KeyCall]_vars

\* _notify_msg_or_file on the lines of a job.
NotifySpecInit ==
    /\ Quiet
    /\ \E job \in {"banned", "err_disabled"}, n \in 0..MaxLines :
          call = [NoCall EXCEPT !.fn = "_notify_msg_or_file", !.arg = LinesOf(job, n)]

NotifySpec == NotifySpecInit /\ [][NotifyCall]_vars

(***************************************************************************)
(* The scheduler running the watcher jobs: "await job()" is a watcher tick. *)
(***************************************************************************)
\* The job registered under each name.
WatcherOf(name) == IF name = "banned" THEN "banned_nk" ELSE "rotom"

\* The except clauses around "await job()": the one for Exception logs and
\* lets the loop go on, CancelledError is raised again.
LoopCatchesAll(exc) == TRUE
LoopCatches(exc) == exc # "CancelledError"

\* _run_loop after "await job()" ended with `result`.
AfterJob(rec, result) ==
    [Looping(rec) EXCEPT !.pc = "wait",
                         !.last = IF result = "returned" THEN "ok" ELSE "raised"]

\* _run_loop when the job body let `exc` through.
AfterException(rec, exc) ==
    IF LoopCatches(exc) THEN AfterJob(rec, "raised") ELSE Finish(rec, "cancelled")

\* Task t goes on as rec: when rec is at "await job()", the job body runs up
\* to its first await, or returns at its channel check.
RunProceed(t, rec) ==
    IF rec.pc = "ticking"
    THEN /\ WTickStartStep(WatcherOf(rec.name))
         /\ tasks' = Stepped(t, IF ev'.done THEN AfterJob(rec, ev'.result) ELSE rec)
    ELSE /\ tasks' = Stepped(t, rec)
         /\ UNCHANGED <<store, wpc, wloc, ev, hist>>

RunTaskStart(t) ==
    /\ t \in TaskIds
    /\ tasks[t].pc = "created"
    /\ LET rec == tasks[t] IN
       RunProceed(t,
          IF rec.must_cancel
          THEN Finish(rec, "cancelled")
          ELSE Proceed(t, [rec EXCEPT !.pending =
                              InitialWaits(rec.run_immediately, rec.start_delay)]))
    /\ did' = "none"
    /\ UNCHANGED <<_tasks, _stopped, stops, raised, jobs, diskVars, call>>

\* The inter-tick wait ends, then the loop condition is tested.
RunWaitEnd(t) ==
    /\ t \in TaskIds
    /\ tasks[t].pc = "wait"
    /\ \E o \in WaitOutcomes(t) :
         LET rec == [tasks[t] EXCEPT !.must_cancel = FALSE] IN
         RunProceed(t, IF o = "cancelled" THEN Finish(rec, "cancelled")
                       ELSE EnterLoop(t, rec))
    /\ did' = "none"
    /\ UNCHANGED <<_tasks, _stopped, stops, raised, jobs, diskVars, call>>

\* The await the job body of task t is suspended at ends: the body runs on
\* to its next await, or ends and _run_loop goes to its wait.
RunJobStep(t) ==
    /\ t \in TaskIds
    /\ tasks[t].pc = "ticking"
    /\ ~tasks[t].must_cancel
    /\ LET w == WatcherOf(tasks[t].name) IN
         \/ AccountFetchDoneStep(w)
         \/ AccountSendDoneStep(w)
         \/ w = "rotom" /\ RotomFetchDoneStep
         \/ w = "rotom" /\ RotomSendDoneStep
    /\ tasks' = IF ev'.done THEN Stepped(t, AfterJob(tasks[t], ev'.result)) ELSE tasks
    /\ did' = "none"
    /\ UNCHANGED <<_tasks, _stopped, stops, raised, jobs, diskVars, call>>

\* task.cancel() was called while the job body of task t is suspended: the
\* await raises CancelledError, which no handler of the job catches.
RunCancel(t) ==
    /\ t \in TaskIds
    /\ tasks[t].pc = "ticking"
    /\ tasks[t].must_cancel
    /\ LET w == WatcherOf(tasks[t].name) IN
         /\ ev' = EndOf(w, wloc[w], "cancelled", NoMsg)
         /\ hist' = Remember(w, HistOf("cancelled", wloc[w], store[PathOf(w)]))
         /\ wpc' = [wpc EXCEPT ![w] = "idle"]
         /\ wloc' = [wloc EXCEPT ![w] = NoLoc]
    /\ tasks' = Stepped(t, AfterException([tasks[t] EXCEPT !.must_cancel = FALSE],
                                          "CancelledError"))
    /\ did' = "none"
    /\ UNCHANGED <<_tasks, _stopped, stops, raised, store, jobs, diskVars, call>>

RunNext ==
    \/ \E t \in 1..MaxTasks : RunTaskStart(t)
    \/ \E t \in 1..MaxTasks : RunWaitEnd(t)
    \/ \E t \in 1..MaxTasks : RunJobStep(t)
    \/ \E t \in 1..MaxTasks : RunCancel(t)
    \/ StopCall
    \/ \E i \in 1..MaxStops : StopResume(i)

\* The banned-usernames job and the offline-device job have been registered
\* with every(), to run immediately.
RunSpecInit ==
    /\ tasks = [t \in {1, 2} |->
                  NewTask(IF t = 1 THEN "banned" ELSE "rotom", TRUE, "None")]
    /\ _tasks = <<[name |-> "banned", task |-> 1], [name |-> "rotom", task |-> 2]>>
    /\ _stopped = FALSE
    /\ stops = <<>>
    /\ did = "none"
    /\ raised = FALSE
    /\ WatchInit
    /\ jobs = {WatcherOf(n) : n \in JobNames}
    /\ hist = <<>>

RunSpec == RunSpecInit /\ [][RunNext]_vars

Init == SchedInit /\ WatchInit /\ jobs = {} /\ hist = <<>>

\* The scheduler, whatever its jobs do.
Spec == Init /\ [][Next]_vars

\* The cancellation of a task suspended in the job body is delivered.
CancelTick(t) == TickEnd(t) /\ tasks[t].must_cancel

\* The event loop runs every ready task, timers fire, cancellations are
\* delivered; a job body need not return.
LoopFairness ==
    /\ \A t \in 1..MaxTasks :
          /\ WF_vars(TaskStart(t))
          /\ WF_vars(InitWaitEnd(t))
          /\ WF_vars(WaitEnd(t))
          /\ WF_vars(CancelTick(t))
    /\ \A i \in 1..MaxStops : WF_vars(StopResume(i))

FairSpec == Init /\ [][Next]_vars /\ LoopFairness

\* As FairSpec, and every invocation of a job body terminates.
LiveSpec ==
    Init /\ [][Next]_vars /\ LoopFairness /\ \A t \in 1..MaxTasks : WF_vars(TickEnd(t))

-----------------------------------------------------------------------------
(***************************************************************************)
(* Properties of the scheduler.                                            *)
(***************************************************************************)
\* The tasks of job `name` that have not finished.
Unfinished(name) == {t \in TaskIds : tasks[t].name = name /\ ~Done(t)}

\* The name is registered and the registered task has not finished.
LiveRegistered(name) ==
    \E i \in 1..Len(_tasks) :
        _tasks[i].name = name /\ tasks[_tasks[i].task].pc \notin FinishedPc

\* This step creates a task for job `name`.
CreatesTaskFor(name) ==
    \E t \in (DOMAIN tasks') \ TaskIds : tasks'[t].name = name

\* Where task t is after this step; a task that was freed had finished.
PcAfter(t) == IF t \in DOMAIN tasks' THEN tasks'[t].pc ELSE "freed"

\* Task t starts a tick in this step.
StartsTick(t) ==
    /\ PcAfter(t) = "ticking"
    /\ (t \in TaskIds => tasks[t].pc # "ticking")

\* C1 as stated: in every reachable state, each job name has at most one
\* task that has not finished.
C1_AtMostOneUnfinishedAlways ==
    \A n \in JobNames : Cardinality(Unfinished(n)) <= 1

\* C1, amended: until stop() is called each job name has at most one
\* unfinished task, and at all times a step taken while the task registered
\* for a name is unfinished creates no task for that name and leaves the
\* name registered to that task, unless it is a stop() clearing the registry.
C1_SingleLiveTask ==
    /\ [](~_stopped => \A n \in JobNames : Cardinality(Unfinished(n)) <= 1)
    /\ [][ \A n \in JobNames :
              LiveRegistered(n)
              => /\ ~CreatesTaskFor(n)
                 /\ \/ _tasks' = <<>>
                    \/ \E i \in 1..Len(_tasks') :
                          _tasks'[i] = [name |-> n, task |-> TaskOf(n)] ]_vars

\* Both job names are registered, each with its one task, which is running:
\* every() is refused for either name.
C1_Witness ==
    /\ ~_stopped
    /\ \A n \in JobNames :
          /\ AlreadyRunning(n)
          /\ Cardinality(Unfinished(n)) = 1
          /\ tasks[TaskOf(n)].ticked

\* C2: no two tasks of the same job name are inside the job body at once,
\* and a task that has ticked before starts its next tick only from its
\* inter-tick wait (so after the previous tick ended and the wait ended).
C2_TicksSequential ==
    /\ [](\A n \in JobNames :
            Cardinality({t \in TaskIds : tasks[t].name = n /\ tasks[t].pc = "ticking"}) <= 1)
    /\ [][ \A t \in TaskIds :
              StartsTick(t) /\ tasks[t].ticked => tasks[t].pc = "wait" ]_vars

\* Two jobs of different names are inside their bodies at the same time.
C2_Witness ==
    \E t, u \in TaskIds :
        /\ tasks[t].name # tasks[u].name
        /\ tasks[t].pc = "ticking"
        /\ tasks[u].pc = "ticking"

\* C3: when "await job()" ends without a cancellation, whether the body
\* returned or raised, the task goes to its inter-tick wait and no other task
\* changes; unless the scheduler is stopped, the task leaves that wait only
\* to run the body again, and it does not stay in the wait after a raised
\* tick for ever.
C3_CrashIsolated ==
    /\ [][ \A t \in TaskIds :
              tasks[t].pc = "ticking" /\ ~tasks[t].must_cancel /\ PcAfter(t) # "ticking"
              => /\ PcAfter(t) = "wait"
                 /\ tasks'[t].last \in {"ok", "raised"}
                 /\ \A u \in TaskIds \ {t} : u \in DOMAIN tasks' /\ tasks'[u] = tasks[u] ]_vars
    /\ [][ \A t \in TaskIds :
              tasks[t].pc = "wait" /\ ~_stopped /\ PcAfter(t) # "wait"
              => PcAfter(t) = "ticking" ]_vars
    /\ \A t \in 1..MaxTasks :
          []<>(_stopped \/ ~(t \in TaskIds /\ tasks[t].pc = "wait"
                                           /\ tasks[t].last = "raised"))

\* A tick of one job raised and that job waits for its next tick, while
\* another job is in its body.
C3_Witness ==
    \E t, u \in TaskIds :
        /\ tasks[t].pc = "wait" /\ tasks[t].last = "raised"
        /\ u # t /\ tasks[u].pc = "ticking"

\* A stop() call returns in this step.
StopReturns == did' \in {"returned", "again"}

\* A stop() call returns in this step without having suspended.
StopReturnsAtOnce == StopReturns /\ stops' = stops

\* The suspended stop() call i returns in this step.
StopReturnsLater(i) ==
    i \in 1..Len(stops) /\ StopReturns /\ stops' = Without(stops, i)

\* After stop(), every task there is eventually finishes: no task stays
\* unfinished for ever once the signal is set.
EveryTaskFinishes ==
    \A t \in 1..MaxTasks : []<>(~_stopped \/ t \notin TaskIds \/ Done(t))

\* C4 as stated: after stop() every task eventually finishes, and at the
\* moment a stop() returns the registry is empty and every task created by
\* every() has finished.
C4_AllFinishedAtReturn ==
    /\ EveryTaskFinishes
    /\ [][ StopReturns
           => _tasks' = <<>> /\ \A t \in DOMAIN tasks' : tasks'[t].pc \in FinishedPc ]_vars

\* C4, amended: after stop() every task eventually finishes, and at the
\* moment a stop() returns the registry is empty and every task that was in
\* the registry when that stop() was called has finished.
C4_StopTerminates ==
    /\ EveryTaskFinishes
    /\ [][ /\ StopReturns => _tasks' = <<>>
           /\ StopReturnsAtOnce
              => \A j \in 1..Len(_tasks) :
                    PcAfter(_tasks[j].task) \in FinishedPc \cup {"freed"}
           /\ \A i \in 1..MaxStops :
                StopReturnsLater(i)
                => \A j \in 1..Len(stops[i].snap) :
                      PcAfter(stops[i].snap[j]) \in FinishedPc \cup {"freed"} ]_vars

\* stop() has returned, and a task registered while it was suspended is
\* unfinished and no longer in the registry.
C4_Witness ==
    /\ did = "returned"
    /\ stops = <<>>
    /\ _tasks = <<>>
    /\ \E u \in TaskIds : ~Done(u)

\* C5: no call of stop() raises, the stop signal is set from the first call
\* on, and at the moment any call returns (the first or a later one) the
\* registry is empty.
C5_StopNeverRaises ==
    /\ [](~raised /\ (did \in {"returned", "again"} \/ stops # <<>> => _stopped))
    /\ [][ StopReturns => _tasks' = <<>> /\ _stopped' ]_vars

\* A call of stop() made after another call had set the signal has returned,
\* leaving the registry empty.
C5_Witness ==
    /\ did = "again"
    /\ ~raised
    /\ _tasks = <<>>

\* C6: no task starts a tick in a step taken with the stop signal set.
C6_NoTickAfterStop ==
    [][ \A t \in 1..MaxTasks : StartsTick(t) => ~_stopped ]_vars

\* With the signal set, a job has left its loop by returning from it.
C6_Witness ==
    _stopped /\ \E t \in TaskIds : tasks[t].pc = "returned"

\* The waits the claim names for the first run.
FirstRunWaits(run_immediately, start_delay) ==
    CASE start_delay # "None" -> <<"start_delay">>
      [] start_delay = "None" /\ ~run_immediately -> <<"interval">>
      [] OTHER -> <<>>

\* C7: a task that starts its first tick has waited, before it, exactly the
\* waits of the first-run rule; a task that has not started or is in its
\* initial wait has not ticked, and a task in its initial wait does not start
\* a tick in a step taken with the stop signal set.
C7_FirstRunTiming ==
    /\ [](\A t \in TaskIds :
            tasks[t].pc \in {"created", "init_wait"} => ~tasks[t].ticked)
    /\ [][ \A t \in TaskIds :
              /\ StartsTick(t) /\ ~tasks[t].ticked
                 => tasks'[t].elapsed =
                       FirstRunWaits(tasks[t].run_immediately, tasks[t].start_delay)
              /\ tasks[t].pc = "init_wait" /\ _stopped => PcAfter(t) # "ticking" ]_vars

\* A job registered with a start_delay and run_immediately false is in its
\* first tick after the start_delay wait alone.
C7_Witness ==
    \E t \in TaskIds :
        /\ tasks[t].pc = "ticking"
        /\ tasks[t].start_delay # "None"
        /\ ~tasks[t].run_immediately
        /\ tasks[t].elapsed = <<"start_delay">>

\* C8: a task finishes, or goes away, only once stop() has been called, and,
\* job bodies terminating, unless stop() is called a task is in its body
\* again and again and out of it again and again: it ticks infinitely often.
C8_RunsUntilStop ==
    /\ [](\A t \in TaskIds : Done(t) => _stopped)
    /\ [][ ~_stopped' => \A t \in TaskIds : t \in DOMAIN tasks' ]_vars
    /\ \A t \in 1..MaxTasks :
          /\ []<>(_stopped \/ t \notin TaskIds \/ tasks[t].pc = "ticking")
          /\ []<>(_stopped \/ t \notin TaskIds \/ tasks[t].pc # "ticking")

\* Without stop(), a job waits for its next tick after a tick that returned.
C8_Witness ==
    /\ ~_stopped
    /\ \E t \in TaskIds : tasks[t].pc = "wait" /\ tasks[t].last = "ok"

-----------------------------------------------------------------------------
(***************************************************************************)
(* Properties of the watcher ticks.                                        *)
(***************************************************************************)
\* The rows q in the order given by the permutation p of their indices.
Permuted(q, p) == [i \in 1..Len(q) |-> q[p[i]]]

C10_SelfHealingPurge ==
    (ev.done /\ ev.fetched /\ ~ev.saveFailed) =>
        \A x \in ev.prev \ ev.cur : x \notin SnapshotSet(store[PathOf(ev.w)])

\* The fetch of this step's tick succeeded, as did the fetch of the same
\* watcher's previous tick, and both fetched the same set.
SameFetchAgain ==
    /\ ev.fetched
    /\ ev.last.state \in {"quiet", "told", "lost"}
    /\ ev.last.cur = ev.cur

\* The tick of this step computes an empty delta, has sent nothing, and if it
\* has ended the snapshot holds the fetched set.
NoOpTick ==
    /\ ev.new = <<>>
    /\ ev.rec = <<>>
    /\ ev.msg = NoMsg
    /\ ev.done => SnapshotSet(store[PathOf(ev.w)]) = ev.cur

\* C11 as stated: when two consecutive ticks of a watcher fetch the same set
\* C, the second computes an empty delta, sends no notification and leaves
\* the store equal to C.
C11_SameFetchIsNoOp == SameFetchAgain => NoOpTick

\* C11, amended: when two consecutive ticks of a watcher fetch the same set C
\* and the first one left the snapshot equal to C, the second computes an
\* empty delta, sends no notification and leaves the store equal to C.
C11_SameFetchIsNoOpOnceSaved == (SameFetchAgain /\ ev.last.saved) => NoOpTick

\* A tick has notified and saved a non-empty set, and the next tick of the
\* same watcher, which fetched the same set, has ended.
C11_Witness ==
    /\ SameFetchAgain
    /\ ev.last.saved
    /\ ev.last.state = "told"
    /\ ev.cur # {}
    /\ ev.done

\* The step just taken ended a tick at its failed fetch.
FetchFailed == ev.done /\ ~ev.fetched /\ Last(ev.w).state = "failed"

\* C12: a tick whose fetch fails leaves every snapshot as it was and sends
\* nothing; in the next tick of that watcher the additions are the fetched
\* identifiers absent from that snapshot, and a notification it sends lists
\* exactly those.
C12_FailedFetchKeepsSnapshot ==
    /\ [][FetchFailed' => (store' = store /\ ev'.msg = NoMsg)]_vars
    /\ []((ev.computed /\ ev.last.state = "failed") =>
             SeqRange(ev.new) = ev.cur \ SnapshotSet(ev.before))
    /\ []((ev.last.state = "failed" /\ ev.msg.kind = "new") =>
             /\ SeqRange(ev.msg.lines) = ev.cur \ ev.prev
             /\ SnapshotSet(store[PathOf(ev.w)]) \in {ev.prev, ev.cur})

\* After a tick whose fetch failed, a tick has fetched the identifiers of the
\* snapshot and one more, and has notified.
C12_Witness ==
    /\ ev.done
    /\ ev.last.state = "failed"
    /\ ev.msg.kind = "new"
    /\ ev.prev # {}
    /\ ev.prev \subseteq ev.cur
    /\ Len(ev.msg.lines) = 1

\* C13: whenever a tick of a watcher job ends, it has returned normally: no
\* exception of the fetch, of the store access or of the send leaves the job.
C13_TickNeverRaises == ev.done => ev.result = "returned"

\* The send of the tick that just ended raised.
SendFailed == ev.done /\ ev.fetched /\ ev.result = "raised"

\* C14: when the send of a tick fails and no snapshot write failed, the tick
\* ends with the snapshot holding the fetched set.
C14_SendFailureKeepsWrite ==
    (SendFailed /\ ~ev.saveFailed) => SnapshotSet(store[PathOf(ev.w)]) = ev.cur

\* C15: a step in which the snapshot write fails leaves every snapshot as it
\* was and does not end the tick with an exception; an account watcher then
\* awaits the send of the additions it computed, and a tick that returns
\* after a failed write has delivered them; the next tick of the watcher
\* counts as added again every identifier of those additions that it fetches.
C15_FailedSaveRenotifies ==
    /\ [][ev'.saveFailed => store' = store]_vars
    /\ []((ev.computed /\ ev.saveFailed) => ev.result # "raised")
    /\ []((ev.computed /\ ev.saveFailed /\ ev.new # <<>> /\ ev.w # "rotom") =>
             wpc[ev.w] = "send_new" /\ wloc[ev.w].new = ev.new)
    /\ []((ev.done /\ ev.saveFailed /\ ev.result = "returned" /\ ev.new # <<>>) =>
             /\ Last(ev.w).state = "told"
             /\ ev.w # "rotom" => ev.msg = [kind |-> "new", lines |-> ev.new])
    /\ []((ev.computed /\ ev.last.state = "told" /\ ~ev.last.saved) =>
             (ev.last.new \cap ev.cur) \subseteq SeqRange(ev.new))

\* A tick of an account watcher delivered additions while its snapshot write
\* failed, and the next tick has delivered one of them again.
C15_Witness ==
    /\ ev.done
    /\ ev.w # "rotom"
    /\ ev.last.state = "told"
    /\ ~ev.last.saved
    /\ ev.msg.kind = "new"
    /\ SeqRange(ev.msg.lines) \cap ev.last.new # {}

\* C16: from the call of save_json on, the snapshot file holds, whole, the
\* text it held at the call or the text of the new list; what a load_json
\* gets is what it would have got at the call, or the new list; and when
\* save_json has returned the file holds the new list if no step failed and
\* is as it was otherwise.
C16_SaveIsAtomic ==
    io.pc # "idle" =>
        /\ files[SeenPath] \in {io.old, File(Dump(io.obj))}
        /\ io.got \in {NoGot, LoadJson(DocOf(io.old), ListDoc(<<>>)), ListDoc(io.obj)}
        /\ io.pc = "returned" =>
               DocOf(files[SeenPath]) = SaveJson(DocOf(io.old), io.obj, io.ok)

\* A save has failed after writing a part of the new text, and a load_json
\* then got the previous list, which is not the new one.
C16_Witness ==
    /\ io.pc = "returned"
    /\ ~io.ok
    /\ files[TmpOf(SeenPath)].exists
    /\ Len(files[TmpOf(SeenPath)].text) \in 2..(Len(Dump(io.obj)) - 1)
    /\ io.got = DocOf(io.old)
    /\ io.got.kind = "list"
    /\ io.got.items # io.obj

\* C17: when the snapshot file of a watcher does not exist, cannot be read
\* or parsed, or holds something that is not a list, the tick that diffs
\* against it loads the empty set without raising, and every identifier it
\* fetched counts as added.
C17_UnusableSnapshotIsEmpty ==
    (ev.computed /\ ev.before.kind \in {"absent", "corrupt", "other"}) =>
        /\ ev.prev = {}
        /\ SeqRange(ev.new) = ev.cur
        /\ ev.result # "raised"

\* A tick has diffed two fetched identifiers against a snapshot file that
\* holds a JSON object.
C17_Witness ==
    /\ ev.computed
    /\ ev.before = NotList
    /\ Cardinality(ev.cur) = 2
    /\ Len(ev.new) = 2

\* Two rows agree on encounter count, GMO count and duration.
SameFields(r1, r2) ==
    /\ r1.METHOD_ENCOUNTER = r2.METHOD_ENCOUNTER
    /\ r1.METHOD_GET_MAP_OBJECTS = r2.METHOD_GET_MAP_OBJECTS
    /\ r1.session_duration = r2.session_duration

CallsDue(w, new, rec) ==
    (IF new # <<>> THEN <<"new">> ELSE <<>>)
    \o (IF w = "rotom" /\ rec # <<>> THEN <<"recovered">> ELSE <<>>)

\* C19: a tick that ends before its fetch succeeded has sent nothing; a tick
\* that ends after it has called channel.send once for non-empty additions,
\* once more (offline-device watcher only) for non-empty removals, and not
\* otherwise; a message that went out lists the additions, or the removals
\* of the offline-device watcher, and these are not empty.
C19_OneMessagePerDelta ==
    /\ (ev.done /\ ~ev.fetched) => (ev.calls = <<>> /\ ev.msg = NoMsg)
    /\ (ev.done /\ ev.fetched) => ev.calls = CallsDue(ev.w, ev.new, ev.rec)
    /\ ev.w # "rotom" => ev.rec = <<>>
    /\ ev.msg.kind = "new" => (ev.msg.lines = ev.new /\ ev.new # <<>>)
    /\ ev.msg.kind = "recovered" =>
          (ev.w = "rotom" /\ ev.msg.lines = ev.rec /\ ev.rec # <<>>)
    /\ ev.msg.kind \in {"none", "new", "recovered"}

\* text.split("\n")
RECURSIVE SplitLines(_)
SplitLines(text) ==
    LET breaks == {i \in 1..Len(text) : text[i] = "\n"}
    IN  IF breaks = {} THEN <<text>>
        ELSE LET i == CHOOSE j \in breaks : \A k \in breaks : j <= k
             IN  <<SubSeq(text, 1, i - 1)>> \o SplitLines(SubSeq(text, i + 1, Len(text)))

\* The lines listed in the content of a message, below its header.
BodyLines(content) ==
    LET rows == Tail(SplitLines(content))
    IN  [i \in 1..Len(rows) |->
            IF Len(rows[i]) >= 4 /\ SubSeq(rows[i], 1, 3) = <<"*", " ", "'">>
                                /\ rows[i][Len(rows[i])] = "'"
            THEN SubSeq(rows[i], 4, Len(rows[i]) - 1)
            ELSE None]

\* A call with these lines has sent one message; up to inline_threshold
\* lines are those listed in its content and nothing is attached; more
\* lines are, once inFile is applied to each, those of the attached file,
\* and the content lists none.
Delivered(lines, out, inFile(_)) ==
    /\ Len(out) = 1
    /\ IF Len(lines) <= inline_threshold
       THEN /\ out[1].file = None
            /\ lines # <<>> => BodyLines(out[1].content) = lines
            /\ lines = <<>> => out[1].content = Header \o <<"\n", "-">>
       ELSE /\ out[1].file # None
            /\ SplitLines(out[1].file) = [i \in 1..Len(lines) |-> inFile(lines[i])]
            /\ out[1].content = Header \o Letters("\n(attached list)")

Unchanged(ln) == ln

\* C20 as stated: _notify_msg_or_file delivers every line it is given in one
\* channel send: up to 50 lines in the body, more in one attached file and
\* none in the body, each line as it was given.
C20_EveryLineDelivered == call.done => Delivered(call.arg, call.out, Unchanged)

\* C20, amended: as stated, but the lines of the attached file are the given
\* lines without their leading and trailing whitespace.
C20_EveryLineDeliveredStripped == call.done => Delivered(call.arg, call.out, Strip)

\* More than 50 lines that end in a space were sent as a file.
C20_Witness ==
    /\ call.done
    /\ Len(call.arg) > inline_threshold
    /\ \A i \in 1..Len(call.arg) : Strip(call.arg[i]) # call.arg[i]
    /\ call.out[1].file # None

\* The tick that just ended fetched, successfully, an empty set.
EmptyFetch == ev.done /\ ev.fetched /\ ev.cur = {}

\* C21: a tick whose fetch succeeds with an empty set, and in which no
\* snapshot write failed, ends with an empty snapshot; an account watcher
\* has then sent nothing, and the offline-device watcher has reported every
\* device of the previous snapshot as recovered.
C21_EmptyFetchPurges ==
    (EmptyFetch /\ ~ev.saveFailed) =>
        /\ SnapshotSet(store[PathOf(ev.w)]) = {}
        /\ ev.new = <<>>
        /\ ev.w # "rotom" => (ev.msg = NoMsg /\ ev.calls = <<>>)
        /\ (ev.w = "rotom" /\ ev.prev # {}) =>
              ev.msg = [kind |-> "recovered", lines |-> Sorted(ev.prev)]

\* The tick that just ended is the first one whose fetch succeeded after a
\* tick of the same watcher that failed on its fetch.
FirstFetchAfterSkip == ev.done /\ ev.fetched /\ ev.last.state = "failed"

\* The send of the additions raised in the tick that just ended.
SendOfNewRaised == ev.result = "raised" /\ ev.calls = <<"new">>

\* C22 as stated: a tick that fails on its fetch leaves the snapshot of its
\* watcher as it was, and the first tick after it whose fetch succeeds counts
\* as added every fetched identifier absent from that snapshot and has
\* notified those additions when it ends.
C22_SkippedTickNotifies ==
    /\ [][FetchFailed' => store'[PathOf(ev'.w)] = store[PathOf(ev'.w)]]_vars
    /\ []((ev.computed /\ ev.last.state = "failed") =>
             /\ ev.prev = SnapshotSet(ev.before)
             /\ SeqRange(ev.new) = ev.cur \ SnapshotSet(ev.before))
    /\ [](FirstFetchAfterSkip =>
             /\ SeqRange(ev.new) = ev.cur \ ev.prev
             /\ ev.new # <<>> =>
                   /\ Last(ev.w).state = "told"
                   /\ Last(ev.w).new = ev.cur \ ev.prev)

\* C22, amended: as stated, but the additions are notified when that tick
\* ends unless its call of channel.send for them raised.
C22_SkippedTickNotifiesUnlessSendFails ==
    /\ [][FetchFailed' => store'[PathOf(ev'.w)] = store[PathOf(ev'.w)]]_vars
    /\ []((ev.computed /\ ev.last.state = "failed") =>
             /\ ev.prev = SnapshotSet(ev.before)
             /\ SeqRange(ev.new) = ev.cur \ SnapshotSet(ev.before))
    /\ [](FirstFetchAfterSkip =>
             /\ SeqRange(ev.new) = ev.cur \ ev.prev
             /\ ev.new # <<>> =>
                   /\ Last(ev.w).state = IF SendOfNewRaised THEN "lost" ELSE "told"
                   /\ Last(ev.w).new = ev.cur \ ev.prev)

\* The offline-device watcher skipped a tick on a failed fetch; its next tick
\* found one device of the snapshot still offline and a new one, which it
\* has notified, and has returned.
C22_Witness ==
    /\ FirstFetchAfterSkip
    /\ ev.w = "rotom"
    /\ ev.result = "returned"
    /\ ev.prev # {}
    /\ ev.prev \subseteq ev.cur
    /\ ev.msg = [kind |-> "new", lines |-> Sorted(ev.cur \ ev.prev)]
    /\ Len(ev.new) = 1
    /\ Last("rotom").state = "told"

\* C23: a step of a tick of one watcher leaves the snapshot of every other
\* watcher as it was, the banned watcher of the other provider included, and
\* the previous set it diffs against is the one of its own snapshot.
C23_OwnKeyOnly ==
    [][ /\ \A v \in Watchers \ {ev'.w} : store'[PathOf(v)] = store[PathOf(v)]
        /\ ev'.computed => ev'.prev = SnapshotSet(store[PathOf(ev'.w)]) ]_vars

\* The banned watcher of one provider has just replaced its snapshot while
\* the banned watcher of the other provider, which had saved another
\* snapshot, is suspended at its send.
C23_Witness ==
    /\ jobs = Banned
    /\ ev.w = "banned_nk"
    /\ ev.computed
    /\ ev.before.kind = "list"
    /\ store[PathOf("banned_nk")] # ev.before
    /\ wpc["banned_ptc"] = "send_new"
    /\ store[PathOf("banned_ptc")].kind = "list"
    /\ store[PathOf("banned_ptc")] # store[PathOf("banned_nk")]
    /\ SnapshotSet(store[PathOf("banned_ptc")]) = wloc["banned_ptc"].cur

\* The sends a tick can be suspended at.
SendPcs == {"send_new", "send_rec"}

\* C24: while a tick awaits a send, its snapshot write has been made (the
\* snapshot holds the fetched set unless that write failed), and a tick that
\* ends after a successful fetch with nothing to notify has made it too.
C24_SaveBeforeSend ==
    /\ \A w \in Watchers :
          wpc[w] \in SendPcs =>
              \/ wloc[w].saveFailed
              \/ SnapshotSet(store[PathOf(w)]) = wloc[w].cur
    /\ (ev.done /\ ev.fetched /\ ev.calls = <<>> /\ ~ev.saveFailed) =>
          SnapshotSet(store[PathOf(ev.w)]) = ev.cur

-----------------------------------------------------------------------------
(***************************************************************************)
(* The offline rule of the offline-device watcher, on one status row.      *)
(***************************************************************************)
\* Clock readings around the threshold, and a later one.
OfflineNow == {thr_ms - 1, thr_ms, thr_ms + 1, 2000000}

\* Last-seen timestamps: none, around the threshold, around the clock
\* reading, and in the future.
OfflineTs(now_ms) ==
    {-1, 0, 1, now_ms - thr_ms - 1, now_ms - thr_ms, now_ms - thr_ms + 1,
     now_ms - 1, now_ms, now_ms + 1, now_ms + thr_ms + 1}

\* The job decides on one status row: _is_offline on its timestamp, and the
\* current offline set it builds from the row.
IsOfflineCall ==
    /\ call.fn = "_is_offline"
    /\ ~call.done
    /\ call' = [call EXCEPT
                  !.done = TRUE,
                  !.out = [offline |-> _is_offline(call.arg.row.lastTs, call.arg.now_ms),
                           current |-> RotomCurrent(<<call.arg.row>>, call.arg.now_ms)]]
    /\ UNCHANGED <<schedVars, store, wpc, wloc, ev, jobs, hist, diskVars>>

OfflineSpecInit ==
    /\ Quiet
    /\ \E now_ms \in OfflineNow, dev \in DeviceIds :
         \E ts \in OfflineTs(now_ms) :
            call = [NoCall EXCEPT !.fn = "_is_offline",
                                  !.arg = [row |-> [deviceId |-> dev, lastTs |-> ts],
                                           now_ms |-> now_ms]]

OfflineSpec == OfflineSpecInit /\ [][IsOfflineCall]_vars

\* C25: a device is counted as offline exactly when its last-seen timestamp
\* is zero or negative or lies more than threshold_s * 1000 milliseconds
\* before the clock reading; one last seen exactly threshold_s ago or in the
\* future is not; and the offline set built from its row holds it exactly
\* when it is counted as offline.
C25_OfflineRule ==
    call.done =>
        LET ts  == call.arg.row.lastTs
            now == call.arg.now_ms
        IN  /\ call.out.offline <=> (ts <= 0 \/ now - ts > threshold_s * 1000)
            /\ (ts > 0 /\ now - ts = threshold_s * 1000) => ~call.out.offline
            /\ (ts > 0 /\ ts > now) => ~call.out.offline
            /\ call.out.current = IF call.out.offline THEN {call.arg.row.deviceId} ELSE {}

\* A device last seen exactly threshold_s before the clock reading was found
\* not to be offline.
C25_Witness ==
    /\ call.done
    /\ call.arg.row.lastTs > 0
    /\ call.arg.now_ms - call.arg.row.lastTs = threshold_s * 1000
    /\ ~call.out.offline
    /\ call.out.current = {}

\* stop() has called cancel() on task t, whose job body is suspended.
Cancelling(t) == t \in TaskIds /\ tasks[t].pc = "ticking" /\ tasks[t].must_cancel

\* C26: once cancel() was called on a task suspended in its job body, no
\* step writes the snapshot of that job or makes a send for it, and the one
\* step its tick takes is the CancelledError ending it where it stands, with
\* which the task ends cancelled; a tick cancelled at a send ends, in the
\* offline-device watcher, with the snapshot still the previous one, and in
\* the banned-usernames watcher with the snapshot written (unless that write
\* failed) and the send not completed.
C26_CancelledMidTick ==
    /\ [][ \A t \in 1..MaxTasks :
              Cancelling(t) =>
                  LET w == WatcherOf(tasks[t].name) IN
                    /\ store'[PathOf(w)] = store[PathOf(w)]
                    /\ wpc'[w] \in {wpc[w], "idle"}
                    /\ wpc'[w] = wpc[w] => wloc'[w] = wloc[w]
                    /\ wpc'[w] # wpc[w] =>
                          /\ PcAfter(t) = "cancelled"
                          /\ ev'.w = w /\ ev'.done /\ ev'.result = "cancelled"
                          /\ ev'.calls = wloc[w].calls /\ ev'.msg = NoMsg ]_vars
    /\ [](\A t \in TaskIds : tasks[t].pc = "ticking" => wpc[WatcherOf(tasks[t].name)] # "idle")
    /\ []((ev.done /\ ev.result = "cancelled" /\ ev.calls # <<>>) =>
             IF ev.w = "rotom"
             THEN /\ SnapshotSet(store[_OFFLINE_PATH]) = ev.prev
                  /\ ev.prev # ev.cur
             ELSE /\ ev.saveFailed \/ SnapshotSet(store[PathOf(ev.w)]) = ev.cur
                  /\ ev.calls = <<"new">>)

\* stop() was called while both jobs were suspended at a send. The tick of
\* the offline-device job, which had sent its first message and not saved,
\* has ended at the CancelledError and its task is cancelled; the tick of
\* the banned-usernames job, which saved a new snapshot, is still to get it.
C26_Witness ==
    /\ _stopped
    /\ ev.done /\ ev.w = "rotom" /\ ev.result = "cancelled"
    /\ ev.calls = <<"new", "recovered">>
    /\ SnapshotSet(store[_OFFLINE_PATH]) = ev.prev
    /\ ev.prev # {}
    /\ \E t \in TaskIds : tasks[t].pc = "cancelled"
    /\ \E t \in TaskIds :
          /\ Cancelling(t)
          /\ WatcherOf(tasks[t].name) = "banned_nk"
          /\ wpc["banned_nk"] = "send_new"
          /\ ~wloc["banned_nk"].saveFailed
          /\ wloc["banned_nk"].prev # {}
          /\ SnapshotSet(store[PathOf("banned_nk")]) = wloc["banned_nk"].cur

\* The step just taken called a job whose channel is not configured or is
\* neither a text channel nor a thread.
NoChannelTick == ev.ch \in {"None", "voice"}

\* The tick that just ended is the first one to fetch, successfully, after a
\* tick that returned at its channel check.
FirstFetchAfterNoChannel ==
    ev.done /\ ev.fetched /\ ev.last.state = "none" /\ ev.prev # {}

\* A tick called without a valid channel returns without raising, fetching,
\* writing or sending, and the next tick that fetches diffs against the
\* snapshot as it was.
NoChannelReturns ==
    /\ [][NoChannelTick' => store' = store /\ wpc' = wpc /\ wloc' = wloc]_vars
    /\ [](NoChannelTick =>
             /\ ev.done /\ ev.result = "returned"
             /\ ~ev.fetched /\ ev.rows = <<>>
             /\ ev.calls = <<>> /\ ev.msg = NoMsg
             /\ wpc[ev.w] = "idle")
    /\ []((ev.computed /\ ev.last.state = "none") =>
             SeqRange(ev.new) = ev.cur \ SnapshotSet(ev.before))

\* C27 as stated: a tick called without a valid channel returns without
\* raising, fetching, writing or sending and leaves every snapshot as it
\* was; the first tick that fetches after it counts as added the fetched
\* identifiers absent from that snapshot, and has notified them when it ends.
C27_NoChannelNoOp ==
    /\ NoChannelReturns
    /\ []((FirstFetchAfterNoChannel /\ ev.new # <<>>) =>
             /\ Last(ev.w).new = ev.cur \ ev.prev
             /\ Last(ev.w).state = "told")

\* C27, amended: as stated, but the additions are notified when that tick
\* ends unless its call of channel.send for them raised.
C27_NoChannelNoOpUnlessSendFails ==
    /\ NoChannelReturns
    /\ []((FirstFetchAfterNoChannel /\ ev.new # <<>>) =>
             /\ Last(ev.w).new = ev.cur \ ev.prev
             /\ Last(ev.w).state = IF SendOfNewRaised THEN "lost" ELSE "told")

\* After a tick that saved a snapshot, a tick returned at its channel check;
\* the next tick, with a thread as channel, fetched the identifiers of the
\* snapshot and one more, and has notified that one.
C27_Witness ==
    /\ FirstFetchAfterNoChannel
    /\ ev.result = "returned"
    /\ ev.w = "err_disabled"
    /\ ev.prev \subseteq ev.cur
    /\ Len(ev.new) = 1
    /\ ev.msg = [kind |-> "new", lines |-> ev.new]
    /\ Last(ev.w).state = "told"

\* Task t takes a step.
TaskSteps(t) == t \in TaskIds /\ PcAfter(t) # tasks[t].pc

\* C28: once set, the stop signal stays set; from then on no task starts a
\* tick, so a task that has not entered its loop never runs the job body,
\* whatever its run_immediately and start_delay: its first step ends it when
\* it has no initial wait, and otherwise it ends after that wait or is
\* cancelled in it; and every task there is after stop() eventually finishes.
C28_StopIsPermanent ==
    /\ [][_stopped => _stopped']_vars
    /\ [][ \A t \in 1..MaxTasks :
              _stopped =>
                  /\ ~StartsTick(t)
                  /\ (TaskSteps(t) /\ tasks[t].pc = "created"
                        /\ tasks[t].run_immediately /\ tasks[t].start_delay = "None")
                     => PcAfter(t) \in {"returned", "cancelled", "freed"}
                  /\ (TaskSteps(t) /\ tasks[t].pc = "created")
                     => PcAfter(t) \in {"init_wait", "returned", "cancelled", "freed"}
                  /\ (TaskSteps(t) /\ tasks[t].pc = "init_wait")
                     => PcAfter(t) \in {"returned", "cancelled", "freed"} ]_vars
    /\ [](\A t \in TaskIds :
             tasks[t].pc \in {"created", "init_wait"} => ~tasks[t].ticked)
    /\ \A t \in 1..MaxTasks : []<>(~_stopped \/ t \notin TaskIds \/ Done(t))

\* stop() has returned, which cleared the registry; a job registered after
\* that has a task that returned, and another, registered to run
\* immediately, has a task that has not started yet.
C28_Witness ==
    /\ _stopped
    /\ stops = <<>>
    /\ Len(_tasks) = 2
    /\ tasks[_tasks[1].task].pc = "returned"
    /\ tasks[_tasks[2].task].pc = "created"
    /\ tasks[_tasks[2].task].run_immediately
    /\ tasks[_tasks[2].task].start_delay = "None"
    /\ ~tasks[_tasks[2].task].must_cancel

\* The previous tick of the watcher of this step fetched successfully.
LastFetched == ev.last.state \in {"quiet", "told", "lost"}

\* The identifiers that were in the snapshot, were absent from the set the
\* previous tick fetched, and are in the set this tick fetched.
Reappeared == (ev.cur \cap ev.last.prev) \ ev.last.cur

\* The identifiers fetched by the previous tick and by this one.
StillPresent == ev.cur \cap ev.last.cur

\* C29 as stated: when an identifier of the snapshot is absent from the set
\* fetched by one tick and is in the set fetched by the next, it is an
\* addition of that tick and has been notified when the tick ends; an
\* identifier fetched by both ticks is not an addition of the second.
C29_NotSticky ==
    /\ []((ev.computed /\ LastFetched) =>
             /\ Reappeared \subseteq SeqRange(ev.new)
             /\ StillPresent \cap SeqRange(ev.new) = {})
    /\ []((ev.done /\ ev.fetched /\ LastFetched /\ Reappeared # {}) =>
             /\ Last(ev.w).state = "told"
             /\ Reappeared \subseteq Last(ev.w).new)

\* C29, amended: as stated, for a previous tick that left the snapshot equal
\* to the set it fetched, and the reappeared identifier has been notified
\* unless the call of channel.send for the additions raised.
C29_NotStickyOnceSaved ==
    /\ []((ev.computed /\ LastFetched /\ ev.last.saved) =>
             /\ Reappeared \subseteq SeqRange(ev.new)
             /\ StillPresent \cap SeqRange(ev.new) = {})
    /\ []((ev.done /\ ev.fetched /\ LastFetched /\ ev.last.saved /\ Reappeared # {}) =>
             /\ Last(ev.w).state = IF SendOfNewRaised THEN "lost" ELSE "told"
             /\ Reappeared \subseteq Last(ev.w).new)

\* An account watcher had a and b in its snapshot; a tick fetched b alone
\* and saved it; the next tick fetched both, has notified a alone, and has
\* returned.
C29_Witness ==
    /\ ev.done
    /\ ev.w \in Banned
    /\ ev.result = "returned"
    /\ LastFetched
    /\ ev.last.saved
    /\ Reappeared # {}
    /\ StillPresent # {}
    /\ ev.msg = [kind |-> "new", lines |-> Sorted(Reappeared)]
    /\ Last(ev.w).state = "told"

\* The devices of the snapshot that the status response of this step's tick
\* has no row for.
MissingFromStatus ==
    {d \in ev.prev : \A i \in 1..Len(ev.rows) : Strip(ev.rows[i].deviceId) # d}

\* The tick of the offline-device watcher that just ended fetched
\* successfully, found some device of the snapshot no longer offline, and no
\* snapshot write failed in it.
RecoveryTick ==
    /\ ev.w = "rotom"
    /\ ev.done
    /\ ev.fetched
    /\ ~ev.saveFailed
    /\ ev.rec # <<>>

\* C30: the offline-device watcher counts as recovered every device of the
\* snapshot that is not in the current offline set, the devices missing from
\* the status response included; when the tick ends they have been reported
\* in the "recovered" message and none of them is in the snapshot.
C30_RecoveredReported ==
    /\ (ev.w = "rotom" /\ ev.computed) =>
          /\ ev.rec = Sorted(ev.prev \ ev.cur)
          /\ MissingFromStatus \subseteq SeqRange(ev.rec)
    /\ RecoveryTick =>
          /\ ev.msg = [kind |-> "recovered", lines |-> Sorted(ev.prev \ ev.cur)]
          /\ SnapshotSet(store[_OFFLINE_PATH]) \cap SeqRange(ev.rec) = {}

=============================================================================
